---------------------------- MODULE Spec2Model ----------------------------
(***************************************************************************)
(* Model of rusty_mines (src/src/main.rs): the natively generated          *)
(* minefield (RustMinefield) and the solver (Solver::new, uncover,         *)
(* plant_flag, solve, solved).                                             *)
(*                                                                         *)
(* A position is <<col, row>>, 0-based.  A cell of the board is an integer:*)
(* Number(n) is n (0..8), and Unknown, Flag, Mine are the negative codes   *)
(* below.  f32 values (probabilities, luck) are carried exactly: a value is*)
(* the integer sign * (IEEE-754 bits of its magnitude), and the arithmetic *)
(* rounds to nearest, ties to even, as the hardware does.  The HashMap of  *)
(* the probability engine is a sequence of values parallel to the sequence *)
(* of frontier positions.  Its iteration order is not specified: the      *)
(* Engine step runs the relaxation for every order of the keys, and the    *)
(* Guess step goes on with any one of them.                                *)
(***************************************************************************)
EXTENDS Integers, Sequences, FiniteSets, TLC

\* ------------------------------------------------------------- bounds
\* Fields of every shape with at most MaxCells cells are explored.
MaxCells == 9

\* A field of at most DenseCells cells holds any number of mines, a larger
\* one at most SparseMines.
DenseCells == 8
SparseMines == 1

\* The largest width * height of the fields whose runs are followed to their
\* end under fairness
MaxFairCells == 7

\* ------------------------------------------------------------- constants
Unknown == -1
Flag == -2
Mine == -3

NEIGHBORS ==
    << <<1, 1>>, <<1, 0>>, <<1, -1>>, <<0, 1>>, <<0, -1>>,
       <<-1, 1>>, <<-1, 0>>, <<-1, -1>> >>

\* for _ in 0..100
MaxIterations == 100

\* 0.0001 as f32 (bits 0x38D1B717), the convergence threshold of the relaxation
Threshold == 953267991
\* f32 infinity (bits 0x7F800000): a correction divided by zero
Infinity == 2139095040

VARIABLES
    width, height, number_of_mines, \* Minefield descriptor
    field,          \* RustMinefield.field: <<>> while unplaced, else BOOLEAN per cell
    board,          \* Solver.board
    flags,          \* Solver.flags
    unknowns,       \* Solver.unknowns
    active, next,   \* solve(): the two worklists
    new_info,       \* solve(): productive-round marker
    luck,           \* solve(): running luck, f32
    pc,             \* solve(): control point
    probs,          \* solve(): the map probs once the relaxation has run, for
                    \*   each iteration order of the map (a set of [probs,
                    \*   done, ords]); <<>> outside the guess
    i,              \* solve(): index of the for loop over active (1-based)
    todo,           \* solve(): rest of the Unknown-neighbour snapshot being processed
    kind,           \* "A" or "B" while todo is processed
    result,         \* the bool solve() returned (meaningful when outcome = "returned")
    outcome,        \* "running", "returned", "assert", "panic", "error"
    detonated,      \* history: some sweep has returned Cell::Mine
    guesses,        \* history: number of guess probes taken
    chosen,         \* history: the probability charged to luck by the last guess
    picked,         \* history: the guess just taken, <<>> once the next round
                    \*   has begun: [pos, isolated, keys, probs, sum], the cell
                    \*   probed, whether pos_other gave it, and the keys, the
                    \*   values and the sum of probs
    round_start,    \* history: unknowns at the top of the current loop iteration
    first,          \* field protocol: index of the first swept cell, -1 before
    last            \* field protocol: the cell the latest sweep_cell returned

vars == << width, height, number_of_mines, field, board, flags, unknowns,
           active, next, new_info, luck, pc, i, todo, kind, result, outcome,
           detonated, guesses, chosen, picked, round_start, first, last, probs >>

\* ------------------------------------------------------------- helpers
Size == width * height

\* The element of a one-element set.  {F(x) : x \in {e}} evaluates e once and
\* hands F its value: the intermediate results of the engine are bound this way.
Only(S) == CHOOSE x \in S : TRUE

Abs(x) == IF x < 0 THEN -x ELSE x
Max(a, b) == IF a >= b THEN a ELSE b

\* Pos inside the field (the bounds test of RustMinefield::get and Solver::index)
InBounds(pos) ==
    ~(pos[1] < 0 \/ pos[1] >= width \/ pos[2] < 0 \/ pos[2] >= height)

\* Solver::index, for an in-bounds position (0-based flattened index)
Index(pos) == pos[1] + pos[2] * width

\* Solver::get, for an in-bounds position
Get(pos) == board[Index(pos) + 1]

\* The in-bounds neighbours of pos in NEIGHBORS order (Solver::neighbors)
neighbors(pos) ==
    SelectSeq([k \in 1..8 |-> <<pos[1] + NEIGHBORS[k][1], pos[2] + NEIGHBORS[k][2]>>],
              InBounds)

IsUnknown(pos) == Get(pos) = Unknown
IsFlag(pos) == Get(pos) = Flag

\* mutant: the neighbour snapshot is not filtered by Unknown
UnknownNeighborsAll(pos) == neighbors(pos)

UnknownNeighbors(pos) == SelectSeq(neighbors(pos), IsUnknown)

\* mutant: the flagged neighbours are not counted
FlagNeighborsNone(pos) == <<>>

FlagNeighbors(pos) == SelectSeq(neighbors(pos), IsFlag)

\* ------------------------------------------------------------- RustMinefield
\* RustMinefield::get on a placed grid f: None is FALSE via unwrap_or(false)
FieldGet(f, pos) == IF InBounds(pos) THEN f[Index(pos) + 1] ELSE FALSE

\* RustMinefield::neighbors
FieldNeighbors(f, pos) ==
    Cardinality({k \in 1..8 :
        FieldGet(f, <<pos[1] + NEIGHBORS[k][1], pos[2] + NEIGHBORS[k][2]>>)})

MineCount(f) == Cardinality({k \in 1..Len(f) : f[k]})

\* The grids the placement loop of RustMinefield::get can end with when the
\* first get is at flattened index idx: number_of_mines distinct cells, none idx.
\* mutant: the placement loop does not skip the first-probed index
PlacementsAnywhere(idx) ==
    {f \in [1..Size -> BOOLEAN] : MineCount(f) = number_of_mines}

Placements(idx) ==
    {f \in [1..Size -> BOOLEAN] : ~f[idx + 1] /\ MineCount(f) = number_of_mines}

\* The grid after RustMinefield::get(pos): placed on the first call only
GridAfterGet(pos) == IF field = <<>> THEN Placements(Index(pos)) ELSE {field}

\* RustMinefield::sweep_cell on the placed grid f
sweep_cell(f, pos) == IF f[Index(pos) + 1] THEN Mine ELSE FieldNeighbors(f, pos)


\* ------------------------------------------------------------- f32
\* An f32 is carried as the integer sign * (IEEE 754 bits of the magnitude):
\* the order of the integers is the order of the values.  The operators
\* round to nearest, ties to even, as the hardware does.  Subnormal results
\* and overflow do not arise from the values of solve() and are not modelled.
P23 == 2^23
P27 == 2^27

\* biased exponent field and 24-bit significand of a nonzero value
Exp(a) == Abs(a) \div P23
Man(a) == (Abs(a) % P23) + P23

\* position of the highest set bit of s, 0 < s < 2^31
HiBit(s) ==
    IF s >= 2^15
    THEN IF s >= 2^23
         THEN IF s >= 2^27
              THEN IF s >= 2^29
                   THEN IF s >= 2^30
                        THEN 30
                        ELSE 29
                   ELSE IF s >= 2^28
                        THEN 28
                        ELSE 27
              ELSE IF s >= 2^25
                   THEN IF s >= 2^26
                        THEN 26
                        ELSE 25
                   ELSE IF s >= 2^24
                        THEN 24
                        ELSE 23
         ELSE IF s >= 2^19
              THEN IF s >= 2^21
                   THEN IF s >= 2^22
                        THEN 22
                        ELSE 21
                   ELSE IF s >= 2^20
                        THEN 20
                        ELSE 19
              ELSE IF s >= 2^17
                   THEN IF s >= 2^18
                        THEN 18
                        ELSE 17
                   ELSE IF s >= 2^16
                        THEN 16
                        ELSE 15
    ELSE IF s >= 2^7
         THEN IF s >= 2^11
              THEN IF s >= 2^13
                   THEN IF s >= 2^14
                        THEN 14
                        ELSE 13
                   ELSE IF s >= 2^12
                        THEN 12
                        ELSE 11
              ELSE IF s >= 2^9
                   THEN IF s >= 2^10
                        THEN 10
                        ELSE 9
                   ELSE IF s >= 2^8
                        THEN 8
                        ELSE 7
         ELSE IF s >= 2^3
              THEN IF s >= 2^5
                   THEN IF s >= 2^6
                        THEN 6
                        ELSE 5
                   ELSE IF s >= 2^4
                        THEN 4
                        ELSE 3
              ELSE IF s >= 2^1
                   THEN IF s >= 2^2
                        THEN 2
                        ELSE 1
                   ELSE 0

\* rounding to nearest, ties to even: quotient q, remainder r of a division
\* by 2 * half, placed at the exponent bits base
PackRound(q, r, half, sticky, base) ==
    base + q + (IF r > half \/ (r = half /\ (sticky \/ q % 2 = 1)) THEN 1 ELSE 0)

PackAt(s, e, sticky, shift) ==
    IF shift > 0
    THEN PackRound(s \div 2^shift, s % 2^shift, 2^(shift - 1), sticky,
                   (e + shift - 1) * P23)
    ELSE (e + shift - 1) * P23 + s * 2^(-shift)

\* The f32 nearest to s * 2^(e - 150), s > 0; sticky says that the exact
\* value lies above s * 2^(e - 150) by less than one unit of s
Pack(s, e, sticky) == Only({PackAt(s, e, sticky, h - 23) : h \in {HiBit(s)}})

\* t, with a last bit that keeps what a shift has lost
Jam(t, lost) == IF lost /\ t % 2 = 0 THEN t + 1 ELSE t

\* The sum s of two significands with three guard bits, 2^26 <= s < 2^28,
\* at the exponent e
AddPack(e, s) ==
    IF s >= P27 THEN PackRound(s \div 16, s % 16, 8, FALSE, e * P23)
    ELSE PackRound(s \div 8, s % 8, 4, FALSE, (e - 1) * P23)

\* a + b for the magnitudes a >= b > 0, w = 2^(Exp(a) - Exp(b))
AddSig(e, ma, mb, w) ==
    Only({AddPack(e, s) : s \in {ma + Jam(mb \div w, mb % w # 0)}})

AddOrd(a, b, d) ==
    IF d > 25 THEN a
    ELSE AddSig(a \div P23, ((a % P23) + P23) * 8, ((b % P23) + P23) * 8, 2^d)

AddMag(a, b) ==
    IF a >= b THEN AddOrd(a, b, (a \div P23) - (b \div P23))
    ELSE AddOrd(b, a, (b \div P23) - (a \div P23))

\* a - b for the magnitudes a > b > 0
SubSig(e, ma, mb, w) ==
    Only({Pack(s, e - 3, FALSE) : s \in {ma - Jam(mb \div w, mb % w # 0)}})

SubOrd(a, b, d) ==
    IF d > 25 THEN a
    ELSE SubSig(a \div P23, ((a % P23) + P23) * 8, ((b % P23) + P23) * 8, 2^d)

SubMag(a, b) ==
    IF a = b THEN 0
    ELSE IF a > b THEN SubOrd(a, b, (a \div P23) - (b \div P23))
    ELSE -SubOrd(b, a, (b \div P23) - (a \div P23))

\* a + b, for a and b that are values at hand
FAddV(a, b) ==
    IF a = 0 THEN b
    ELSE IF b = 0 THEN a
    ELSE IF a > 0
    THEN IF b > 0 THEN AddMag(a, b) ELSE SubMag(a, -b)
    ELSE IF b > 0 THEN SubMag(b, -a) ELSE -AddMag(-a, -b)

\* a + b
FAdd(a, b) == Only({FAddV(x, y) : x \in {a}, y \in {b}})

\* a - b
FSub(a, b) == Only({FAddV(x, -y) : x \in {a}, y \in {b}})

\* the quotient q of the significand with seven guard bits
FDivV(a, n) ==
    IF a = 0 THEN 0
    ELSE IF n = 1 THEN a
    ELSE IF a < 0
    THEN -Pack((Man(a) * 128) \div n, Exp(a) - 7, (Man(a) * 128) % n # 0)
    ELSE Pack((Man(a) * 128) \div n, Exp(a) - 7, (Man(a) * 128) % n # 0)

\* a / (n as f32), 0 < n < 64
FDiv(a, n) == Only({FDivV(x, n) : x \in {a}})

\* the 48-bit product of the significands, as high * 2^24 + low24
FMulParts(a, b, high, low24) ==
    Only({IF (a < 0) = (b < 0) THEN r ELSE -r :
            r \in {Only({Pack(s, Exp(a) + Exp(b) - 130, low24 % 2^20 # 0) :
                           s \in {high * 16 + (low24 \div 2^20)}})}})

FMulLow(a, b, hh, mid, low) ==
    FMulParts(a, b, hh + (mid \div 4096) + (low \div (2 * P23)), low % (2 * P23))

FMulMid(a, b, hh, mid, ll) == FMulLow(a, b, hh, mid, (mid % 4096) * 4096 + ll)

FMulSplit(a, b, ah, al, bh, bl) == FMulMid(a, b, ah * bh, ah * bl + al * bh, al * bl)

FMulV(a, b) ==
    IF a = 0 \/ b = 0 THEN 0
    ELSE FMulSplit(a, b, Man(a) \div 4096, Man(a) % 4096, Man(b) \div 4096, Man(b) % 4096)

\* a * b
FMul(a, b) == Only({FMulV(x, y) : x \in {a}, y \in {b}})

\* n as f32, for an i32 of small magnitude
FromInt(n) ==
    IF n = 0 THEN 0
    ELSE IF n < 0 THEN -Pack(-n, 150, FALSE) ELSE Pack(n, 150, FALSE)

\* 1f32
One == 127 * P23

\* f32::clamp(p, 0, 1)
Clamp(p) == Only({IF v < 0 THEN 0 ELSE IF v > One THEN One ELSE v : v \in {p}})

\* ------------------------------------------------------------- Solver
\* mutant: solved() only looks for Unknown cells
solvedByUnknowns ==
    LET count(c) == Cardinality({k \in 1..Len(board) : board[k] = c})
    IN  count(Unknown) = 0

\* Solver::solved
solved ==
    LET count(c) == Cardinality({k \in 1..Len(board) : board[k] = c})
    IN  count(Unknown) = 0 /\ count(Mine) = 0 /\ count(Flag) = number_of_mines

\* mutant: the row is the outer loop of the scan
ScanOrderRows == [k \in 1..Size |-> <<(k - 1) % width, (k - 1) \div width>>]

\* The scan `for col in 0..width { for row in 0..height` of the bulk reveal
\* and of pos_other: the column is the outer loop.
ScanOrder == [k \in 1..Size |-> <<(k - 1) \div height, (k - 1) % height>>]

\* mutant: the mine budget is off by one
remaining_minesOffByOne == number_of_mines - flags + 1

\* self.minefield.number_of_mines() - self.flags
remaining_mines == number_of_mines - flags

\* ------------------------------------------------------------- probability engine
\* remaining_mines as f32 / self.unknowns as f32
naive_chance == FDiv(FromInt(remaining_mines), unknowns)

Range(s) == {s[k] : k \in 1..Len(s)}

\* The keys of probs: the Unknown neighbours of the active positions
FrontierSet == UNION {Range(UnknownNeighbors(active[k])) : k \in 1..Len(active)}

\* The keys of probs as a sequence; the values of probs are kept in a
\* sequence parallel to it.
Frontier == SelectSeq(ScanOrder, LAMBDA p : p \in FrontierSet)

\* The sequences that hold every element of S once
RECURSIVE KeyOrders(_)
KeyOrders(S) ==
    IF S = {} THEN {<<>>}
    ELSE UNION {{Append(o, k) : o \in KeyOrders(S \ {k})} : k \in S}

\* The orders in which a HashMap of n keys is iterated.  The order of a map
\* is arbitrary (the hasher is seeded at random) and stays the same while no
\* key is inserted or removed: each of the n! orders is one a run can have.
\* An order is a sequence of indices into Frontier.
Orders(n) == KeyOrders(1..n)

\* The indices into Frontier of the first n positions of U
RECURSIVE KeysOf(_, _)
KeysOf(U, n) ==
    IF n = 0 THEN <<>>
    ELSE Append(KeysOf(U, n - 1), CHOOSE j \in 1..Len(Frontier) : Frontier[j] = U[n])

\* What the relaxation reads of one active position: whether it is a
\* Number, its expected mines (mines - flags) as f32 and the indices (into
\* Frontier) of its Unknown neighbours, in the order of NEIGHBORS.
Constraint(pos) ==
    LET cell == Get(pos)
        U == UnknownNeighbors(pos)
    IN  [number |-> cell >= 0,
         expected |-> FromInt(cell - Len(FlagNeighbors(pos))),
         keys |-> KeysOf(U, Len(U))]

RECURSIVE ConstraintsTo(_)
ConstraintsTo(n) ==
    IF n = 0 THEN <<>> ELSE Append(ConstraintsTo(n - 1), Constraint(active[n]))

Constraints == ConstraintsTo(Len(active))

\* Iterator::sum over the first n entries of keys: ((0 + p1) + p2) + ...
RECURSIVE SumKeys(_, _, _)
SumKeys(pr, keys, n) ==
    IF n = 0 THEN 0
    ELSE FAdd(SumKeys(pr, keys, n - 1), pr[keys[n]])

\* `*p = f32::clamp(*p + correction, 0, 1)` at the first n entries of keys
\* (lines 399-403)
RECURSIVE Corrected(_, _, _, _)
Corrected(pr, keys, correction, n) ==
    IF n = 0 THEN pr
    ELSE [Corrected(pr, keys, correction, n - 1)
            EXCEPT ![keys[n]] = Clamp(FAddV(@, correction))]

\* the same at every entry of the map (lines 411-414): its first n entries
RECURSIVE CorrectedAll(_, _, _)
CorrectedAll(pr, correction, n) ==
    IF n = 0 THEN <<>>
    ELSE Append(CorrectedAll(pr, correction, n - 1),
                Clamp(FAddV(pr[n], correction)))

\* A map of n entries, each naive_chance (lines 363-369)
RECURSIVE Filled(_, _)
Filled(naive, n) == IF n = 0 THEN <<>> ELSE Append(Filled(naive, n - 1), naive)

\* One active cell of a relaxation pass (lines 374-404); st = [probs, max]
RelaxCell(st, c) ==
    IF ~c.number THEN st
    ELSE
      LET n == Len(c.keys)
          sum == SumKeys(st.probs, c.keys, n)
      IN  IF n = 0
          THEN \* x / 0.0: NaN when x = 0 (f32::max ignores it), else infinite
               [probs |-> st.probs,
                max |-> IF c.expected = 0 THEN st.max ELSE Infinity]
          ELSE Only({[probs |-> Corrected(st.probs, c.keys, correction, n),
                      max |-> Max(st.max, Abs(correction))] :
                        correction \in {FDiv(FSub(c.expected, sum), n)}})

RECURSIVE RelaxCells(_, _, _)
RelaxCells(st, cons, k) ==
    IF k > Len(cons) THEN st
    ELSE Only({RelaxCells(t, cons, k + 1) : t \in {RelaxCell(st, cons[k])}})

\* Iterator::sum over the first n values of the sequence v
RECURSIVE SumValues(_, _)
SumValues(v, n) ==
    IF n = 0 THEN 0
    ELSE FAdd(SumValues(v, n - 1), v[n])

\* The values of the map in the order o of its iteration
ValuesIn(pr, o) == [k \in 1..Len(o) |-> pr[o[k]]]

\* The orders of the pairs <<order, sum>> of P grouped by sum, as [sum, ords]
SumGroups(P) ==
    {[sum |-> v, ords |-> {q[1] : q \in {x \in P : x[2] = v}}] : v \in {q[2] : q \in P}}

\* The sum of line 408 in each of the orders ords: the orders are grouped by
\* the sum they give.  The sum of an order is the sum of its sequence of
\* values, computed once for the orders that give the same sequence.
SumsBy(pr, ords) ==
    Only({SumGroups({<<o, S[ValuesIn(pr, o)]>> : o \in ords}) :
            S \in {[v \in {ValuesIn(pr, o) : o \in ords} |-> SumValues(v, Len(v))]}})

\* The global step of a pass (lines 407-415), sum being the sum of probs
Normalize(st, sum) ==
    IF sum > FromInt(remaining_mines)
    THEN IF Len(st.probs) = 0
         THEN \* an empty map and a negative budget: the correction is -inf
              [probs |-> st.probs, max |-> Infinity]
         ELSE Only({[probs |-> CorrectedAll(st.probs, correction, Len(st.probs)),
                     max |-> Max(st.max, Abs(correction))] :
                       correction \in
                         {FDiv(FSub(FromInt(remaining_mines), sum), Len(st.probs))}})
    ELSE st

\* The end of a pass (lines 407-418) for the orders c.ords of sum c.sum
PassEnd(t, c) ==
    Only({[probs |-> r.probs, done |-> r.max < Threshold, ords |-> c.ords] :
            r \in {Normalize(t, c.sum)}})

\* One pass of the relaxation (the body of `for _ in 0..100`) for the maps
\* iterated in one of the orders st.ords, which have all given the map
\* st.probs so far; st = [probs, done, ords], done once a pass has ended
\* with max_correction_diff < 0.0001 (break).  The result is a set: the
\* orders part where they give different sums.
RelaxPass(st, cons) ==
    IF st.done THEN {st}
    ELSE UNION {{PassEnd(t, c) : c \in SumsBy(t.probs, st.ords)} :
                  t \in {RelaxCells([probs |-> st.probs, max |-> 0], cons, 1)}}

\* n passes of the loop, n >= 1 (evaluated by halves to keep the nesting flat)
RECURSIVE Relax(_, _, _)
Relax(sts, cons, n) ==
    IF n = 1 THEN UNION {RelaxPass(st, cons) : st \in sts}
    ELSE UNION {Relax(half, cons, n - (n \div 2)) :
                  half \in {Relax(sts, cons, n \div 2)}}

\* probs after the engine has run (lines 361-421), for the map iterated in
\* each of the orders ords: a set of [probs, done, ords]
Probs(ords) ==
    UNION {Relax({[probs |-> Filled(naive, n),
                   done |-> FALSE, ords |-> ords]},
                 cons, MaxIterations) :
             cons \in {Constraints}, naive \in {naive_chance}, n \in {Len(Frontier)}}

\* mutant: the scan tests `is_some()` instead of `is_none()`
pos_otherInMap ==
    LET free == SelectSeq(ScanOrder, LAMBDA p : IsUnknown(p) /\ p \in FrontierSet)
    IN  IF free = <<>> THEN {} ELSE {free[1]}

\* The scan of pos_other (lines 433-445): the first Unknown cell absent from
\* the map; the empty set stands for its panic!().
pos_other ==
    LET free == SelectSeq(ScanOrder, LAMBDA p : IsUnknown(p) /\ p \notin FrontierSet)
    IN  IF free = <<>> THEN {} ELSE {free[1]}

\* The index (into ord) of the first entry of the iteration whose value is v
FirstAt(pr, ord, v) ==
    CHOOSE j \in 1..Len(ord) : pr[ord[j]] = v /\ \A x \in 1..(j - 1) : pr[ord[x]] # v

\* mutant: the isolated cells are never preferred to a frontier cell
BestGuessesFrontierFirst(pr, ord) ==
    LET sum == SumKeys(pr, ord, Len(ord))
        border_unknowns == Len(pr)
        isolated_unknowns == unknowns - border_unknowns
        p_other == FDiv(FSub(FromInt(remaining_mines), sum), isolated_unknowns)
        least == CHOOSE m \in Range(pr) : \A x \in Range(pr) : m <= x
        k == ord[FirstAt(pr, ord, least)]
    IN  IF border_unknowns > 0
        THEN {<<Frontier[k], pr[k]>>}
        ELSE {<<q, p_other>> : q \in pos_other}

\* The guess (lines 423-451) over the engine's probs pr, the map iterated in
\* order ord: the <<position, probability>> pair the match produces, as a
\* one-element set, or the empty set for the panic!() of pos_other.  min_by
\* returns the first of the equally minimal entries of the iteration.
BestGuesses(pr, ord) ==
    LET sum == SumKeys(pr, ord, Len(ord))
        border_unknowns == Len(pr)
        isolated_unknowns == unknowns - border_unknowns
        p_other == FDiv(FSub(FromInt(remaining_mines), sum), isolated_unknowns)
        least == CHOOSE m \in Range(pr) : \A x \in Range(pr) : m <= x
        k == ord[FirstAt(pr, ord, least)]
    IN  IF border_unknowns > 0 /\ isolated_unknowns > 0 /\ p_other < least
        THEN {<<q, p_other>> : q \in pos_other}
        ELSE IF border_unknowns > 0
        THEN {<<Frontier[k], pr[k]>>}
        ELSE {<<q, p_other>> : q \in pos_other}

\* ------------------------------------------------------------- initial states
Shapes == {wh \in (1..MaxCells) \X (1..MaxCells) : wh[1] * wh[2] <= MaxCells}

\* The field of the test `bla` (lines 576-584)
BlaField == [k \in 1..16 |-> k \in {7, 13, 16}]

\* Solver::new, followed by the first statements of solve() (lines 271-275)
SolverNew ==
    /\ board = [k \in 1..Size |-> Unknown]
    /\ flags = 0
    /\ unknowns = Size
    /\ active = <<>>
    /\ next = << <<0, 0>> >>
    /\ new_info = FALSE
    /\ luck = One
    /\ pc = "loop"
    /\ i = 1
    /\ todo = <<>>
    /\ kind = "-"
    /\ result = FALSE
    /\ outcome = "running"
    /\ detonated = FALSE
    /\ guesses = 0
    /\ chosen = 0
    /\ picked = <<>>
    /\ probs = <<>>
    /\ round_start = Size + 1
    /\ first = -1
    /\ last = Unknown

\* A field built with its grid (the struct literal of the test): any grid,
\* mine_count being the number of mines it holds.
InitPlaced ==
    /\ \E wh \in Shapes : width = wh[1] /\ height = wh[2]
    /\ field \in [1..Size -> BOOLEAN]
    /\ number_of_mines = MineCount(field)
    /\ Size <= DenseCells \/ number_of_mines <= SparseMines

\* RustMinefield::new: the grid is placed by the first get
InitLazy ==
    /\ \E wh \in Shapes : width = wh[1] /\ height = wh[2]
    /\ field = <<>>
    /\ number_of_mines \in 0..(Size - 1)
    /\ Size <= DenseCells \/ number_of_mines <= SparseMines

Init == (InitPlaced \/ InitLazy) /\ SolverNew

\* The minefield of the test `bla` (lines 576-586)
InitBla ==
    /\ width = 4 /\ height = 4
    /\ field = BlaField
    /\ number_of_mines = 3

\* ------------------------------------------------------------- uncover, plant_flag
\* mutant: uncover forgets `self.unknowns -= 1`
UncoveredNoCount(pos, f) ==
    LET cell == sweep_cell(f, pos)
    IN  /\ field' = f
        /\ board' = [board EXCEPT ![Index(pos) + 1] = cell]
        /\ unknowns' = unknowns
        /\ detonated' = (detonated \/ cell = Mine)
        /\ first' = IF first = -1 THEN Index(pos) ELSE first
        /\ last' = cell

\* Solver::uncover(pos) on the grid f the sweep answers from: sweep_cell, then
\* the board cell and the counter.
Uncovered(pos, f) ==
    LET cell == sweep_cell(f, pos)
    IN  /\ field' = f
        /\ board' = [board EXCEPT ![Index(pos) + 1] = cell]
        /\ unknowns' = unknowns - 1
        /\ detonated' = (detonated \/ cell = Mine)
        /\ first' = IF first = -1 THEN Index(pos) ELSE first
        /\ last' = cell

\* mutant: plant_flag forgets `self.unknowns -= 1`
FlaggedNoCount(pos) ==
    /\ board' = [board EXCEPT ![Index(pos) + 1] = Flag]
    /\ flags' = flags + 1
    /\ unknowns' = unknowns

\* Solver::plant_flag(pos)
Flagged(pos) ==
    /\ board' = [board EXCEPT ![Index(pos) + 1] = Flag]
    /\ flags' = flags + 1
    /\ unknowns' = unknowns - 1

\* uncover and plant_flag go on only at an in-bounds position whose board
\* cell is Unknown
CallOk(pos) == InBounds(pos) /\ Get(pos) = Unknown

\* Solver::uncover(pos) where it does not go on.  Out of bounds, the unwrap
\* of sweep_cell panics on the None of get, which has returned before the
\* placement (outcome "assert").  In bounds, the cell is swept first (line
\* 240: the grid is placed if it was not, and the sweep is answered) and then
\* the assert! of line 242 fires on a cell that is not Unknown.
UncoverFails(pos) ==
    /\ pc' = "done"
    /\ outcome' = "assert"
    /\ IF InBounds(pos)
       THEN \E f \in GridAfterGet(pos) :
              /\ field' = f
              /\ last' = sweep_cell(f, pos)
              /\ detonated' = (detonated \/ sweep_cell(f, pos) = Mine)
              /\ first' = IF first = -1 THEN Index(pos) ELSE first
       ELSE UNCHANGED << field, last, detonated, first >>
    /\ UNCHANGED << board, unknowns >>

\* Solver::plant_flag(pos) where it does not go on: Err("Bad index") out of
\* bounds, which solve() returns (outcome "error"), and the assert! of line
\* 250 on a cell that is not Unknown
PlantFlagFails(pos) ==
    /\ pc' = "done"
    /\ outcome' = IF InBounds(pos) THEN "assert" ELSE "error"
    /\ UNCHANGED << board, flags, unknowns >>

\* the panic!() of pos_other ends the run where it stands
Panic(what) ==
    /\ pc' = "done"
    /\ outcome' = what
    /\ UNCHANGED << width, height, number_of_mines, field, board, flags, unknowns,
                    active, next, new_info, luck, i, todo, kind, result,
                    detonated, guesses, chosen, picked, probs, round_start, first, last >>

\* solve() returns Ok((b, luck))
Return(b) ==
    /\ pc' = "done"
    /\ outcome' = "returned"
    /\ result' = b

desc == << width, height, number_of_mines >>

\* ------------------------------------------------------------- solve()
\* Top of `loop` (lines 278-280)
RoundBegin ==
    /\ pc = "loop"
    /\ active' = next
    /\ next' = <<>>
    /\ new_info' = FALSE
    /\ i' = 1
    /\ pc' = "for"
    /\ round_start' = unknowns
    /\ picked' = <<>>
    /\ UNCHANGED << desc, field, board, flags, unknowns, luck, todo, kind, result,
                    outcome, detonated, guesses, chosen, probs, first, last >>

\* mutant: an unresolved Number is not kept for the next round
ForNumberDrops ==
    /\ pc = "for" /\ i <= Len(active)
    /\ InBounds(active[i]) /\ Get(active[i]) >= 0
    /\ LET pos == active[i]
           mines == Get(pos)
           nflags == Len(FlagNeighbors(pos))
           unk == UnknownNeighbors(pos)
       IN  IF Len(unk) = 0
           THEN /\ i' = i + 1
                /\ UNCHANGED << next, todo, kind, pc >>
           ELSE IF mines = nflags
           THEN /\ todo' = unk /\ kind' = "A" /\ pc' = "rule"
                /\ UNCHANGED << next, i >>
           ELSE IF Len(unk) + nflags = mines
           THEN /\ todo' = unk /\ kind' = "B" /\ pc' = "rule"
                /\ UNCHANGED << next, i >>
           ELSE /\ next' = next
                /\ i' = i + 1
                /\ UNCHANGED << todo, kind, pc >>
    /\ UNCHANGED << desc, round_start, field, board, flags, unknowns, active, new_info, luck,
                    result, outcome, detonated, guesses, chosen, picked, probs, first, last >>

\* One position of `for pos in active` whose cell is a Number (lines 288-324)
ForNumber ==
    /\ pc = "for" /\ i <= Len(active)
    /\ InBounds(active[i]) /\ Get(active[i]) >= 0
    /\ LET pos == active[i]
           mines == Get(pos)
           nflags == Len(FlagNeighbors(pos))
           unk == UnknownNeighbors(pos)
       IN  IF Len(unk) = 0
           THEN /\ i' = i + 1
                /\ UNCHANGED << next, todo, kind, pc >>
           ELSE IF mines = nflags
           THEN /\ todo' = unk /\ kind' = "A" /\ pc' = "rule"
                /\ UNCHANGED << next, i >>
           ELSE IF Len(unk) + nflags = mines
           THEN /\ todo' = unk /\ kind' = "B" /\ pc' = "rule"
                /\ UNCHANGED << next, i >>
           ELSE /\ next' = Append(next, pos)
                /\ i' = i + 1
                /\ UNCHANGED << todo, kind, pc >>
    /\ UNCHANGED << desc, round_start, field, board, flags, unknowns, active, new_info, luck,
                    result, outcome, detonated, guesses, chosen, picked, probs, first, last >>

\* What follows the last position of a rule's loop: new_info = true, next pos
RuleDone ==
    IF Len(todo) = 1
    THEN new_info' = TRUE /\ i' = i + 1 /\ pc' = "for" /\ kind' = "-"
    ELSE UNCHANGED << new_info, i, pc, kind >>

\* Rule A (lines 306-313): uncover one Unknown neighbour of the snapshot
RuleA ==
    /\ pc = "rule" /\ kind = "A"
    /\ LET p == Head(todo)
       IN  IF CallOk(p)
           THEN /\ \E f \in GridAfterGet(p) : Uncovered(p, f)
                /\ next' = Append(next, p)
                /\ todo' = Tail(todo)
                /\ RuleDone
                /\ UNCHANGED << desc, round_start, flags, active, luck, result, outcome,
                                guesses, chosen, picked, probs >>
           ELSE /\ UncoverFails(p)
                /\ UNCHANGED << desc, round_start, flags, active, next, new_info, luck,
                                i, todo, kind, result, guesses, chosen, picked, probs >>

\* Rule B (lines 314-320): flag one Unknown neighbour of the snapshot
RuleB ==
    /\ pc = "rule" /\ kind = "B"
    /\ LET p == Head(todo)
       IN  IF CallOk(p)
           THEN /\ Flagged(p)
                /\ todo' = Tail(todo)
                /\ RuleDone
                /\ UNCHANGED << desc, round_start, field, active, next, luck, result, outcome,
                                detonated, guesses, chosen, picked, probs, first, last >>
           ELSE /\ PlantFlagFails(p)
                /\ UNCHANGED << desc, round_start, field, active, next, new_info, luck,
                                i, todo, kind, result, detonated, guesses, chosen, picked,
                                probs, first, last >>

\* An active position that is still Unknown: the seed (lines 325-329)
ForUnknown ==
    /\ pc = "for" /\ i <= Len(active)
    /\ InBounds(active[i]) /\ Get(active[i]) = Unknown
    /\ LET pos == active[i]
       IN  /\ \E f \in GridAfterGet(pos) : Uncovered(pos, f)
           /\ next' = Append(next, pos)
           /\ new_info' = TRUE
           /\ i' = i + 1
    /\ UNCHANGED << desc, round_start, flags, active, luck, pc, todo, kind, result, outcome,
                    guesses, chosen, picked, probs >>

\* mutant: an active Mine is skipped like a Flag instead of returning
ForOtherSkipsMine ==
    /\ pc = "for" /\ i <= Len(active)
    /\ ~InBounds(active[i]) \/ Get(active[i]) \in {Mine, Flag}
    /\ IF ~InBounds(active[i])
       THEN pc' = "done" /\ outcome' = "error" /\ UNCHANGED << result, i >>
       ELSE i' = i + 1 /\ UNCHANGED << pc, result, outcome >>
    /\ UNCHANGED << desc, round_start, field, board, flags, unknowns, active, next,
                    new_info, luck, todo, kind, detonated, guesses, chosen, picked, probs, first,
                    last >>

\* An active position that holds a Mine: return Ok((false, luck)) (line 330);
\* one that holds a Flag: `_ => ()` (line 331); one out of bounds:
\* `Bad active cell location` (line 285)
ForOther ==
    /\ pc = "for" /\ i <= Len(active)
    /\ ~InBounds(active[i]) \/ Get(active[i]) \in {Mine, Flag}
    /\ IF ~InBounds(active[i])
       THEN pc' = "done" /\ outcome' = "error" /\ UNCHANGED << result, i >>
       ELSE IF Get(active[i]) = Mine
       THEN Return(FALSE) /\ UNCHANGED i
       ELSE i' = i + 1 /\ UNCHANGED << pc, result, outcome >>
    /\ UNCHANGED << desc, round_start, field, board, flags, unknowns, active, next, new_info,
                    luck, todo, kind, detonated, guesses, chosen, picked, probs, first, last >>

\* mutant: `if new_info { continue; }` is missing
ForEndNoContinue ==
    /\ pc = "for" /\ i > Len(active)
    /\ IF unknowns = 0
       THEN Return(solved)
       ELSE /\ pc' = IF remaining_mines = 0 THEN "bulk" ELSE "engine"
            /\ UNCHANGED << result, outcome >>
    /\ UNCHANGED << desc, round_start, field, board, flags, unknowns, active, next, new_info,
                    luck, i, todo, kind, detonated, guesses, chosen, picked, probs, first, last >>

\* After the for loop (lines 335-357): done, bulk reveal, next round or guess
ForEnd ==
    /\ pc = "for" /\ i > Len(active)
    /\ IF unknowns = 0
       THEN Return(solved)
       ELSE /\ pc' = IF remaining_mines = 0 THEN "bulk"
                     ELSE IF new_info THEN "loop" ELSE "engine"
            /\ UNCHANGED << result, outcome >>
    /\ UNCHANGED << desc, round_start, field, board, flags, unknowns, active, next, new_info,
                    luck, i, todo, kind, detonated, guesses, chosen, picked, probs, first, last >>

\* The bulk reveal (lines 343-353): the next Unknown cell of the scan is
\* uncovered; after the last one, break and return (solved(), luck)
Bulk ==
    /\ pc = "bulk"
    /\ LET rest == SelectSeq(ScanOrder, IsUnknown)
       IN  IF rest = <<>>
           THEN /\ Return(solved)
                /\ UNCHANGED << field, board, unknowns, detonated, first, last >>
           ELSE /\ \E f \in GridAfterGet(rest[1]) : Uncovered(rest[1], f)
                /\ UNCHANGED << pc, result, outcome >>
    /\ UNCHANGED << desc, round_start, flags, active, next, new_info, luck, i, todo, kind,
                    guesses, chosen, picked, probs >>

\* The probability engine (lines 361-421): the map probs after the passes of
\* the relaxation, in each of the orders the map may be iterated in
Engine ==
    /\ pc = "engine"
    /\ pc' = "guess"
    /\ probs' = Probs(Orders(Len(Frontier)))
    /\ UNCHANGED << desc, round_start, field, board, flags, unknowns, active, next,
                    new_info, luck, i, todo, kind, result, outcome, detonated, guesses,
                    chosen, picked, first, last >>

\* The choice of the guess and its probe (lines 423-460), the map iterated in
\* one of its orders
Guess ==
    /\ pc = "guess"
    /\ \E run \in probs : \E ord \in run.ords :
         \E pr \in {run.probs} : \E best \in {BestGuesses(pr, ord)} :
           IF best = {}
           THEN Panic("panic")
           ELSE \E g \in best :
                  LET pos == g[1]
                  IN  IF ~CallOk(pos)
                      THEN /\ luck' = FMul(luck, FSub(One, g[2]))
                           /\ UncoverFails(pos)
                           /\ UNCHANGED << desc, round_start, flags, active, next,
                                           new_info, i, todo, kind, result, guesses,
                                           chosen, picked, probs >>
                      ELSE /\ luck' = FMul(luck, FSub(One, g[2]))
                           /\ chosen' = g[2]
                           /\ picked' = [pos |-> pos,
                                         isolated |-> pos \notin FrontierSet,
                                         keys |-> FrontierSet,
                                         probs |-> pr,
                                         sum |-> SumKeys(pr, ord, Len(ord))]
                           /\ guesses' = guesses + 1
                           /\ probs' = <<>>
                           /\ \E f \in GridAfterGet(pos) : Uncovered(pos, f)
                           /\ IF sweep_cell(field', pos) = Mine
                              THEN Return(FALSE) /\ UNCHANGED next
                              ELSE /\ next' = Append(next, pos)
                                   /\ pc' = "loop"
                                   /\ UNCHANGED << result, outcome >>
                           /\ UNCHANGED << desc, round_start, flags, active, new_info, i, todo,
                                           kind >>

Next ==
    \/ RoundBegin
    \/ ForNumber
    \/ RuleA
    \/ RuleB
    \/ ForUnknown
    \/ ForOther
    \/ ForEnd
    \/ Bulk
    \/ Engine
    \/ Guess

Spec == Init /\ [][Next]_vars

\* The runs followed to their end: the fields of at most MaxFairCells cells
FairInit == Init /\ Size <= MaxFairCells

\* A terminated run may stutter; a fair run takes every step it can.
FairSpec == FairInit /\ [][Next]_vars /\ WF_vars(Next)

\* The run of the test `bla` (lines 574-592): Solver::new on its minefield,
\* then solve()
BlaSpec == (InitBla /\ SolverNew) /\ [][Next]_vars

\* ------------------------------------------------------------- the field alone
\* RustMinefield::new, then sweep_cell calls at arbitrary in-bounds positions
InitField ==
    /\ \E wh \in Shapes : width = wh[1] /\ height = wh[2]
    /\ field = <<>>
    /\ number_of_mines \in 0..(Size - 1)
    /\ board = <<>> /\ flags = 0 /\ unknowns = 0 /\ active = <<>> /\ next = <<>>
    /\ new_info = FALSE /\ luck = One /\ pc = "field" /\ i = 1 /\ todo = <<>>
    /\ kind = "-" /\ result = FALSE /\ outcome = "running" /\ detonated = FALSE
    /\ guesses = 0 /\ chosen = 0 /\ picked = <<>> /\ round_start = 0
    /\ probs = <<>>
    /\ first = -1
    /\ last = Unknown

\* RustMinefield::sweep_cell(column, row) (lines 175-180, with get, lines 140-164)
SweepCell ==
    /\ pc = "field"
    /\ \E pos \in {q \in (0..(width - 1)) \X (0..(height - 1)) : InBounds(q)} :
         \E f \in GridAfterGet(pos) :
           /\ field' = f
           /\ last' = sweep_cell(f, pos)
           /\ first' = IF first = -1 THEN Index(pos) ELSE first
    /\ UNCHANGED << desc, board, flags, unknowns, active, next, new_info, luck, pc,
                    i, todo, kind, result, outcome, detonated, guesses, chosen, picked, probs,
                    round_start >>

NextField == SweepCell

FieldSpec == InitField /\ [][NextField]_vars

\* ------------------------------------------------------------- properties
Count(c) == Cardinality({k \in 1..Len(board) : board[k] = c})
revealed_count == Cardinality({k \in 1..Len(board) : board[k] >= 0})

\* The declared mine count is the number of mines of the grid (a grid still
\* to be placed will hold number_of_mines mines)
Truthful == field = <<>> \/ MineCount(field) = number_of_mines

\* C1: on the 4x4 field of the test (mines at indices 6, 12, 15, mine_count 3)
\* solve() runs on until it returns, and it returns solved: no probe has
\* detonated, every mine is flagged and every other cell is revealed.  A
\* property of BlaSpec, whose maps have up to 8 keys (40320 orders each).
C1_BlaSolved ==
    /\ pc # "done" => ENABLED Next
    /\ pc = "done" =>
         /\ outcome = "returned" /\ result = TRUE /\ solved
         /\ ~detonated
         /\ \A k \in 1..16 : IF BlaField[k] THEN board[k] = Flag ELSE board[k] >= 0

C1_Witness == pc = "done" /\ result = TRUE /\ guesses >= 1 /\ flags = 3

\* C2: solve() returns after finitely many rounds: a fair run reaches the
\* return, and every iteration of the loop starts with strictly fewer Unknown
\* cells than the iteration before it.
C2_Terminates ==
    /\ <>(pc = "done" /\ outcome = "returned")
    /\ [][(pc = "loop" /\ pc' = "for") => unknowns < round_start]_vars

C2_Witness ==
    pc = "done" /\ outcome = "returned" /\ guesses >= 2 /\ flags >= 1

\* C3: when solve() has returned true, and whenever solved() is true, the
\* board has no Unknown cell, no Mine cell and exactly mine_count Flag cells
\* (and the counters say the same).
C3_SolvedMeansCleared ==
    ((pc = "done" /\ outcome = "returned" /\ result = TRUE) \/ solved)
      => /\ \A k \in 1..Len(board) : board[k] = Flag \/ board[k] >= 0
         /\ Cardinality({k \in 1..Len(board) : board[k] = Flag}) = number_of_mines
         /\ unknowns = 0 /\ flags = number_of_mines

C3_Witness ==
    pc = "done" /\ outcome = "returned" /\ result = TRUE /\ flags >= 2 /\ guesses >= 1

\* C4: flags is the number of Flag cells and unknowns the number of Unknown
\* cells of the board, in every state; unknowns is never negative.
C4_CountersMatchBoard ==
    /\ flags = Count(Flag)
    /\ unknowns = Count(Unknown)
    /\ unknowns >= 0

C4_Witness == flags >= 2 /\ revealed_count >= 2 /\ unknowns >= 1 /\ guesses >= 1

\* C5 as stated: flags + revealed_count + unknowns = width * height in every
\* state, a recorded Mine included (revealed_count counts the Number cells).
C5_Original == flags + revealed_count + unknowns = Size

\* C5 amended: the cells in state Mine are part of the sum.
C5_SumWithMines == flags + revealed_count + Count(Mine) + unknowns = Size

C5_Witness == Count(Mine) = 1 /\ flags >= 1 /\ revealed_count >= 1 /\ unknowns >= 1

\* C6: uncover and plant_flag are only ever called on an in-bounds position
\* whose cell is Unknown: no assert! fires, no `Bad index` or `Bad active cell
\* location` arises, and a cell that has left Unknown never changes again.
C6_OnlyUnknownTargets ==
    /\ [](outcome \notin {"assert", "error"})
    /\ [][\A k \in 1..Len(board) : board[k] # Unknown => board'[k] = board[k]]_vars

C6_Witness ==
    pc = "rule" /\ kind = "B" /\ Len(todo) >= 2 /\ guesses >= 1 /\ revealed_count >= 3

\* C7: the first in-bounds sweep places the grid, once: number_of_mines
\* mines, none at the first-probed cell, so the first sweep does not
\* detonate; later sweeps leave the grid as it is.
C7_LazyPlacement ==
    /\ [](field # <<>> =>
            /\ first # -1
            /\ MineCount(field) = number_of_mines
            /\ ~field[first + 1])
    /\ [][field = <<>> => (field' # <<>> /\ last' # Mine)]_vars
    /\ [][field # <<>> => field' = field]_vars

C7_Witness == field # <<>> /\ number_of_mines >= 2 /\ last = Mine /\ first # 0

\* C8: with a truthful oracle, from the moment flags = mine_count no guess is
\* taken and the engine is not reached, no flag is added and no sweep
\* detonates; the run ends returning solved = true with no Unknown cell left.
C8_AllFlaggedShortcut ==
    /\ [][(Truthful /\ flags = number_of_mines /\ pc # "done") =>
             /\ guesses' = guesses /\ pc' \notin {"engine", "guess"}
             /\ flags' = flags
             /\ ~detonated']_vars
    /\ []((Truthful /\ flags = number_of_mines /\ pc = "done") =>
             outcome = "returned" /\ result = TRUE /\ unknowns = 0)

C8_Witness ==
    Truthful /\ pc = "bulk" /\ flags = number_of_mines /\ flags >= 1 /\ unknowns >= 2

\* The estimate of the cell a guess has probed: its entry of the map, or
\* p_other for a cell outside the map
ProbedEstimate(pk) ==
    IF pk.isolated
    THEN FDiv(FSub(FromInt(remaining_mines), pk.sum), unknowns - Len(pk.probs))
    ELSE pk.probs[CHOOSE k \in 1..Len(Frontier) : Frontier[k] = pk.pos]

\* C9: with a truthful oracle, once a sweep has detonated nothing more is
\* swept or flagged and luck stays what the detonating guess left, which is
\* the luck before that guess times (1 - the estimate of the cell it probed);
\* solve() returns false.
C9_DetonationEnds ==
    /\ [][(Truthful /\ detonated) =>
             /\ board' = board /\ unknowns' = unknowns /\ flags' = flags
             /\ luck' = luck]_vars
    /\ [][(~detonated /\ detonated' /\ guesses' # guesses) =>
             \E pk \in {picked'} :
               luck' = FMul(luck, FSub(One, ProbedEstimate(pk)))]_vars
    /\ []((Truthful /\ detonated /\ pc = "done") =>
             outcome = "returned" /\ result = FALSE)

C9_Witness ==
    Truthful /\ detonated /\ pc = "done" /\ result = FALSE /\ guesses >= 2 /\ flags >= 1

\* C10: luck starts at 1.0 and never increases from one guess to the next,
\* every chosen probability lying in [0, 1]; a run without a guess leaves
\* luck at 1.0.  Stated for truthful fields.
C10_LuckNeverIncreases ==
    /\ [](Truthful => (chosen >= 0 /\ chosen <= One))
    /\ [](guesses = 0 => luck = One)
    /\ [][Truthful => luck' <= luck]_vars

\* The cells whose board entry a step changes
Changed == {k \in 1..Len(board) : board'[k] # board[k]}

\* C11: the cell a guess probes is a frontier cell whose estimate is the least
\* of the frontier map and that estimate is charged to luck, unless the map is
\* empty or isolated_unknowns > 0 and p_other is strictly less than that least
\* estimate: then the cell is an Unknown cell outside the map and p_other is
\* charged.  p_other is charged only with isolated_unknowns > 0.
C11_GuessSelection ==
    [][guesses' # guesses =>
         \E pr \in {picked'.probs} :
           LET border == Len(pr)
               isolated == unknowns - border
               p_other == FDiv(FSub(FromInt(remaining_mines), picked'.sum), isolated)
               least == CHOOSE m \in Range(pr) : \A x \in Range(pr) : m <= x
               pos == picked'.pos
           IN  /\ Changed = {Index(pos) + 1}
               /\ luck' = FMul(luck, FSub(One, chosen'))
               /\ IF border > 0 /\ ~(isolated > 0 /\ p_other < least)
                  THEN /\ pos \in FrontierSet
                       /\ \E k \in 1..border : Frontier[k] = pos /\ pr[k] = least
                       /\ chosen' = least
                  ELSE /\ isolated > 0
                       /\ IsUnknown(pos) /\ pos \notin FrontierSet
                       /\ chosen' = p_other]_vars

\* an isolated cell was preferred to a frontier that was not empty, after a
\* guess that took a frontier cell
C11_Witness ==
    /\ picked # <<>> /\ picked.isolated /\ picked.keys # {}
    /\ guesses >= 2 /\ chosen > 0

\* The Unknown cells absent from the frontier map (the isolated cells)
IsolatedCells ==
    {q \in (0..(width - 1)) \X (0..(height - 1)) : IsUnknown(q) /\ q \notin FrontierSet}

\* p comes no later than q when rows are scanned in increasing order and the
\* column varies fastest within a row
RowMajorLeq(p, q) == p[2] < q[2] \/ (p[2] = q[2] /\ p[1] <= q[1])

\* p comes no later than q when columns are scanned in increasing order and
\* the row varies fastest within a column
ColumnMajorLeq(p, q) == p[1] < q[1] \/ (p[1] = q[1] /\ p[2] <= q[2])

\* C12 as stated: an isolated cell that is guessed is the first of the
\* isolated cells in row-major order (column varies fastest within a row).
C12_Original ==
    [][(guesses' # guesses /\ picked'.isolated) =>
         \A q \in IsolatedCells : RowMajorLeq(picked'.pos, q)]_vars

\* C12 amended: an isolated cell that is guessed is the first of the isolated
\* cells in column-major order: columns in increasing order, and within a
\* column the row varies fastest.
C12_ColumnMajorScan ==
    [][(guesses' # guesses /\ picked'.isolated) =>
         /\ picked'.pos \in IsolatedCells
         /\ \A q \in IsolatedCells : ColumnMajorLeq(picked'.pos, q)]_vars

\* an isolated cell was guessed while a cell that is still Unknown, isolated
\* then, came before it in row-major order
C12_Witness ==
    /\ picked # <<>> /\ picked.isolated
    /\ \E q \in (0..(width - 1)) \X (0..(height - 1)) :
         /\ IsUnknown(q) /\ q \notin picked.keys /\ q # picked.pos
         /\ RowMajorLeq(q, picked.pos)

\* One pass of the relaxation on the map iterated in order ord, keeping the
\* greatest sum of probs seen at the end of a pass; t = [st, worst]
TracePass(t, cons, ord) ==
    IF t.st.done THEN t
    ELSE Only({[st |-> r, worst |-> Max(t.worst, SumKeys(r.probs, ord, Len(ord)))] :
                 r \in RelaxPass(t.st, cons)})

RECURSIVE Trace(_, _, _, _)
Trace(t, cons, ord, n) ==
    IF n = 1 THEN TracePass(t, cons, ord)
    ELSE Only({Trace(half, cons, ord, n - (n \div 2)) :
                 half \in {Trace(t, cons, ord, n \div 2)}})

\* The greatest sum of probs at the end of a pass, over the passes the engine
\* makes in the current state on a map iterated in order ord
WorstPassSum(ord) ==
    Only({Trace([st |-> [probs |-> Filled(naive, n),
                         done |-> FALSE, ords |-> {ord}],
                 worst |-> 0],
                cons, ord, MaxIterations).worst :
            cons \in {Constraints}, naive \in {naive_chance}, n \in {Len(Frontier)}})

\* The keys of probs in the order of the scan
ScanOrderKeys == [k \in 1..Len(Frontier) |-> k]

\* The margin of C13: 1e-3, as ((1 / 10) / 10) / 10 in f32
SumMargin == FDiv(FDiv(FDiv(One, 10), 10), 10)

\* C13: after every pass of the relaxation (the corrections of the active
\* cells, then the global normalisation with its clamp) the sum of the
\* probabilities of the frontier cells is at most remaining_mines + 1e-3.
\* Stated for the engine runs on truthful fields, the map iterated in the
\* order of the scan.
C13_SumWithinBudget ==
    (Truthful /\ pc = "guess") =>
      WorstPassSum(ScanOrderKeys) <= FAdd(FromInt(remaining_mines), SumMargin)

\* C14: with a truthful oracle deduction is sound: a cell Rule B flags is a
\* mine of the field, a cell Rule A or the bulk reveal uncovers is not, and
\* a sweep detonates only as the seed probe of (0,0) or as a guess probe.
C14_DeductionSound ==
    /\ [](Truthful => \A k \in 1..Len(board) : board[k] = Flag => field[k])
    /\ [][(Truthful /\ pc = "rule" /\ kind = "B") =>
             \A k \in Changed : board'[k] = Flag /\ field'[k]]_vars
    /\ [][(Truthful /\ ((pc = "rule" /\ kind = "A") \/ pc = "bulk")) =>
             \A k \in Changed : board'[k] >= 0 /\ ~field'[k]]_vars
    /\ [][(Truthful /\ ~detonated /\ detonated') =>
             \/ pc = "guess" /\ guesses' = guesses + 1
             \/ pc = "for" /\ guesses = 0 /\ Changed = {1}]_vars

\* Rule A is at work after Rule B has flagged and a guess was survived
C14_Witness ==
    /\ Truthful /\ ~detonated
    /\ pc = "rule" /\ kind = "A" /\ flags >= 1 /\ guesses >= 1 /\ Len(todo) >= 2

\* C15: the engine and the choice of the guess run only after a round that
\* was not productive (no Rule A, no Rule B and no seed uncover: new_info is
\* false and the round has left the Unknown cells as they were), with
\* unknowns > 0 and flags < mine_count; a guess is taken only from there, and
\* the engine is entered only from the end of such a round.
C15_GuessOnlyWhenStalled ==
    /\ [](pc \in {"engine", "guess"} =>
             /\ ~new_info /\ unknowns = round_start
             /\ unknowns > 0
             /\ flags < number_of_mines)
    /\ [][guesses' # guesses => pc = "guess"]_vars
    /\ [][(pc' = "engine" /\ pc # "engine") => (pc = "for" /\ i > Len(active))]_vars
    /\ [][(pc' = "guess" /\ pc # "guess") => pc = "engine"]_vars

\* the engine is entered again after a guess was survived and rounds of
\* Rule A and Rule B have gone by
C15_Witness ==
    /\ pc = "engine" /\ guesses >= 1 /\ flags >= 1 /\ revealed_count >= 3

Cells == (0..(width - 1)) \X (0..(height - 1))

\* The cells around q, by distance
Around(q) == {p \in Cells : p # q /\ Abs(p[1] - q[1]) <= 1 /\ Abs(p[2] - q[2]) <= 1}

\* The Unknown cells next to at least one revealed numbered cell
RevealedFrontier == {q \in Cells : IsUnknown(q) /\ \E p \in Around(q) : Get(p) >= 0}

\* The revealed numbered cells that still have an Unknown neighbour
OpenNumbers == {p \in Cells : Get(p) >= 0 /\ \E q \in Around(p) : IsUnknown(q)}

\* C16: when the engine runs, the keys of probs are exactly the Unknown cells
\* next to a revealed numbered cell, and isolated_unknowns counts exactly the
\* other Unknown cells; up to the bulk reveal that ends the run, the worklists
\* never lose a revealed numbered cell that still has an Unknown neighbour.
C16_FrontierIsRevealedFrontier ==
    /\ pc \in {"engine", "guess"} =>
         /\ FrontierSet = RevealedFrontier
         /\ OpenNumbers \subseteq Range(active)
         /\ unknowns - Len(Frontier) =
              Cardinality({q \in Cells : IsUnknown(q) /\ q \notin RevealedFrontier})
    /\ pc \in {"loop", "for", "rule", "engine", "guess"} =>
         OpenNumbers \subseteq (Range(active) \cup Range(next))

\* the engine runs with several open numbers, after rules and a guess have
\* taken cells off the worklist
C16_Witness ==
    /\ pc = "engine" /\ guesses >= 1 /\ flags >= 1
    /\ Cardinality(OpenNumbers) >= 2
    /\ Cardinality(OpenNumbers) < revealed_count
    /\ Cardinality(RevealedFrontier) < unknowns

\* C17: whenever the isolated-cell scan is invoked (the frontier map is
\* empty, or isolated_unknowns > 0 and p_other is below the least frontier
\* estimate) an Unknown cell absent from the map exists, and no run ends in
\* the panic!() of the scan.
C17_ScanFindsCell ==
    /\ outcome # "panic"
    /\ pc = "guess" =>
         \A run \in probs : \A ord \in run.ords :
         \E pr \in {run.probs} :
           LET border == Len(pr)
               isolated == unknowns - border
               sum == SumKeys(pr, ord, border)
               p_other == FDiv(FSub(FromInt(remaining_mines), sum), isolated)
               least == CHOOSE m \in Range(pr) : \A x \in Range(pr) : m <= x
           IN  (border = 0 \/ (isolated > 0 /\ p_other < least)) => IsolatedCells # {}

\* the scan has returned a cell with the frontier map empty, and the probe
\* was survived
C17_Witness ==
    /\ picked # <<>> /\ picked.isolated /\ picked.keys = {}
    /\ ~detonated /\ guesses >= 2 /\ pc = "loop"

\* C18: with a truthful oracle solve() returns, and it returns true exactly
\* when no sweep of the run has detonated; a run that ends without a
\* detonation ends with every mine flagged and every other cell revealed
\* (flags = mine_count, unknowns = 0).
C18_SolvedIffNoDetonation ==
    (Truthful /\ pc = "done") =>
      /\ outcome = "returned"
      /\ result = ~detonated
      /\ ~detonated =>
           /\ flags = number_of_mines /\ unknowns = 0
           /\ \A k \in 1..Len(board) :
                IF field[k] THEN board[k] = Flag ELSE board[k] >= 0

\* a run that ended solved after three guesses
C18_Witness ==
    /\ Truthful /\ pc = "done" /\ outcome = "returned"
    /\ result = TRUE /\ ~detonated /\ guesses >= 3 /\ flags >= 1

\* C19: whenever a guess is taken at least one Unknown cell is safe:
\* unknowns > mine_count - flags in the state the guess is chosen in.  Stated
\* for fields that hold exactly mine_count mines.
C19_GuessHasSafeCell ==
    (Truthful /\ pc = "guess") => unknowns > number_of_mines - flags

=============================================================================
